---- MODULE Spec2Model ----
(***************************************************************************)
(* Model of the document-structure extraction of eurlex/__init__.py:       *)
(* _get_text, parse_modifiers, parse_span, parse_article and parse_html.   *)
(*                                                                         *)
(* Python strings are sequences of one-character strings.  Python dicts    *)
(* are objects: the heap maps an object id to a function from keys to      *)
(* values, so that aliasing (a dict passed to a callee and mutated there)  *)
(* and copying (dict.copy()) are both visible.  The markup tree is drawn   *)
(* child by child while parse_article iterates over it.                    *)
(***************************************************************************)
EXTENDS Naturals, Sequences, FiniteSets

\* ------------------------------------------------------------ bounds
\* number of element nodes parse_article visits in one run, when the children
\* are drawn from every kind of element
MaxNodes == 2
\* the same, when they are drawn from a few elements of each kind
MaxNodesDeep == 4

\* ------------------------------------------------------------ values
\* Python's None and a Python str, as one comparable shape
None == [none |-> TRUE, s |-> <<>>]
Str(s) == [none |-> FALSE, s |-> s]
IsNone(v) == v.none

\* ------------------------------------------------------------ str methods
IsSpace(c) == c \in {" ", "\n", "\t"}
IsDigit(c) == c \in {"0", "1", "2", "3", "4", "5", "6", "7", "8", "9"}

RECURSIVE LStrip(_)
LStrip(s) == IF s # <<>> /\ IsSpace(Head(s)) THEN LStrip(Tail(s)) ELSE s

RECURSIVE RStrip(_)
RStrip(s) ==
  IF s # <<>> /\ IsSpace(s[Len(s)]) THEN RStrip(SubSeq(s, 1, Len(s) - 1)) ELSE s

\* str.strip()
Strip(s) == RStrip(LStrip(s))

\* str.startswith(p)
StartsWith(s, p) == Len(s) >= Len(p) /\ SubSeq(s, 1, Len(p)) = p

\* str.replace(old, new): every non-overlapping occurrence, left to right
RECURSIVE Replace(_, _, _)
Replace(s, old, new) ==
  IF s = <<>> THEN <<>>
  ELSE IF old # <<>> /\ StartsWith(s, old)
       THEN new \o Replace(SubSeq(s, Len(old) + 1, Len(s)), old, new)
       ELSE <<Head(s)>> \o Replace(Tail(s), old, new)

\* str.split(sep) for a one-character separator: the list of pieces
RECURSIVE Split(_, _)
Split(s, sep) ==
  IF \E i \in 1..Len(s) : s[i] = sep
  THEN LET i == CHOOSE j \in 1..Len(s) :
                  s[j] = sep /\ \A k \in 1..(j - 1) : s[k] # sep
       IN <<SubSeq(s, 1, i - 1)>> \o Split(SubSeq(s, i + 1, Len(s)), sep)
  ELSE <<s>>

\* sep.join(parts)
RECURSIVE Join(_, _)
Join(sep, parts) ==
  IF parts = <<>> THEN <<>>
  ELSE IF Len(parts) = 1 THEN parts[1]
  ELSE parts[1] \o <<sep>> \o Join(sep, Tail(parts))

\* number of leading digits of s
RECURSIVE LeadDigits(_)
LeadDigits(s) ==
  IF s # <<>> /\ IsDigit(Head(s)) THEN 1 + LeadDigits(Tail(s)) ELSE 0

\* re.match("^[0-9]+[.]", text) is not None
MatchNumeral(s) ==
  LET n == LeadDigits(s) IN n >= 1 /\ Len(s) > n /\ s[n + 1] = "."

\* ------------------------------------------------------------ elements
\* An element as _get_text reads it: its .text (None or a str) and its
\* child elements.
Elem(text, kids) == [text |-> text, kids |-> kids]

\* _get_text(child): descend through a single child, else the stripped .text,
\* else None (the function falls off its end)
RECURSIVE _get_text(_)
_get_text(child) ==
  IF Len(child.kids) = 1 THEN _get_text(child.kids[1])
  ELSE IF ~IsNone(child.text) THEN Str(Strip(child.text.s))
  ELSE None

\* get_tag_name(raw_tag_name)
get_tag_name(raw_tag_name) ==
  IF \E i \in 1..Len(raw_tag_name) : raw_tag_name[i] = "}"
  THEN Split(raw_tag_name, "}")[2]
  ELSE raw_tag_name

\* ------------------------------------------------------------ dicts
\* dict[k] = v
DictSet(d, k, v) == [x \in (DOMAIN d) \cup {k} |-> IF x = k THEN v ELSE d[x]]

\* the empty dict {}
EmptyDict == [x \in {} |-> None]

\* dict.copy(): a new object holding the same keys and values.  h is the heap
\* (object id -> dict); the copy's id is the next free one.
dict_copy(h, id) == [heap |-> Append(h, h[id]), id |-> Len(h) + 1]

\* ------------------------------------------------------------ class names
c_doc_ti == <<"d", "o", "c", "-", "t", "i">>
c_sti_art == <<"s", "t", "i", "-", "a", "r", "t">>
c_ti_art == <<"t", "i", "-", "a", "r", "t">>
c_ti_grseq == <<"t", "i", "-", "g", "r", "s", "e", "q", "-">>
c_ti_section == <<"t", "i", "-", "s", "e", "c", "t", "i", "o", "n", "-">>
c_normal == <<"n", "o", "r", "m", "a", "l">>
c_italic == <<"i", "t", "a", "l", "i", "c">>
c_signatory == <<"s", "i", "g", "n", "a", "t", "o", "r", "y">>
c_note == <<"n", "o", "t", "e">>
c_separator == <<"s", "e", "p", "a", "r", "a", "t", "o", "r">>
w_Article == <<"A", "r", "t", "i", "c", "l", "e">>

\* ------------------------------------------------------------ results
\* What a call leaves behind: whether it raised, the heap, the list it returns.
Returned(h, out) == [raised |-> FALSE, heap |-> h, output |-> out]
Raised(h) == [raised |-> TRUE, heap |-> h, output |-> <<>>]

\* a record with a modifier, its context a fresh copy of new_context
ModifierRecord(child, ref, new_context, h, modifier) ==
  LET c == dict_copy(h, new_context)
  IN Returned(c.heap, <<[text |-> _get_text(child), type |-> "text",
                         modifier |-> modifier, ref |-> ref, context |-> c.id]>>)

\* the last branch taken for every remaining class
parse_modifiers_else_note(child, ref, context, h) ==
  LET nc == dict_copy(h, context)
      cls == child.attrib["class"]
  IN IF cls = c_italic THEN ModifierRecord(child, ref, nc.id, nc.heap, "italic")
     ELSE IF cls = c_signatory
          THEN ModifierRecord(child, ref, nc.id, nc.heap, "signatory")
     ELSE ModifierRecord(child, ref, nc.id, nc.heap, "note")

\* parse_modifiers(child, ref, context)
parse_modifiers(child, ref, context, h) ==
  LET nc == dict_copy(h, context)
      cls == child.attrib["class"]
  IN IF cls = c_italic THEN ModifierRecord(child, ref, nc.id, nc.heap, "italic")
     ELSE IF cls = c_signatory
          THEN ModifierRecord(child, ref, nc.id, nc.heap, "signatory")
     ELSE IF cls = c_note THEN ModifierRecord(child, ref, nc.id, nc.heap, "note")
     ELSE Returned(nc.heap, <<>>)

\* "context": context without the copy: the record holds the working dict
SpanRecord_shared(text, type, ref, context, h) ==
  Returned(h, <<[text |-> text, type |-> type, ref |-> ref,
                 context |-> context]>>)

\* output.append({... "context": context.copy()}) of parse_span
SpanRecord(text, type, ref, context, h) ==
  LET c == dict_copy(h, context)
  IN Returned(c.heap, <<[text |-> text, type |-> type, ref |-> ref,
                         context |-> c.id]>>)

\* the doc-ti branch: context["document"] += text, then the record.
\* str + None raises TypeError.
span_doc_ti(child, ref, context, h) ==
  LET t == _get_text(child)
      d0 == h[context]
      d1 == IF "document" \notin DOMAIN d0
            THEN DictSet(d0, "document", Str(<<>>)) ELSE d0
  IN IF IsNone(t) \/ IsNone(d1["document"])
     THEN Raised([h EXCEPT ![context] = d1])
     ELSE LET d2 == DictSet(d1, "document", Str(d1["document"].s \o t.s))
          IN SpanRecord(t, "doc-title", ref, context, [h EXCEPT ![context] = d2])

\* the sti-art branch
span_sti_art(child, ref, context, h) ==
  LET t == _get_text(child)
  IN SpanRecord(t, "art-subtitle", ref, context,
                [h EXCEPT ![context] = DictSet(@, "article_subtitle", t)])

\* the ti-art branch: None.replace raises AttributeError
span_ti_art(child, ref, context, h) ==
  LET t == _get_text(child)
  IN IF IsNone(t) THEN Raised(h)
     ELSE SpanRecord(t, "art-title", ref, context,
            [h EXCEPT ![context] =
               DictSet(@, "article", Str(Strip(Replace(t.s, w_Article, <<>>))))])

\* the key first, then the record, as the doc-ti branch does
span_set_then_title(child, ref, context, h, type, key) ==
  LET t == _get_text(child)
  IN SpanRecord(t, type, ref, context,
                [h EXCEPT ![context] = DictSet(@, key, t)])

\* the ti-grseq-* and ti-section-* branches: the record first, then the key
span_title_then_set(child, ref, context, h, type, key) ==
  LET t == _get_text(child)
      r == SpanRecord(t, type, ref, context, h)
  IN Returned([r.heap EXCEPT ![context] = DictSet(@, key, t)], r.output)

\* the paragraph label taken as the whole match, period included
span_normal_marker(child, ref, context, h) ==
  LET t == _get_text(child)
  IN IF IsNone(t) THEN Raised(h)
     ELSE IF MatchNumeral(t.s)
          THEN SpanRecord(Str(Strip(Join(".", Tail(Split(t.s, "."))))), "text",
                 ref, context,
                 [h EXCEPT ![context] =
                    DictSet(@, "paragraph",
                            Str(SubSeq(t.s, 1, LeadDigits(t.s) + 1)))])
          ELSE SpanRecord(t, "text", ref, context, h)

\* the normal branch: re.match on None raises TypeError
span_normal(child, ref, context, h) ==
  LET t == _get_text(child)
  IN IF IsNone(t) THEN Raised(h)
     ELSE IF MatchNumeral(t.s)
          THEN SpanRecord(Str(Strip(Join(".", Tail(Split(t.s, "."))))), "text",
                 ref, context,
                 [h EXCEPT ![context] =
                    DictSet(@, "paragraph", Str(Split(t.s, ".")[1]))])
          ELSE SpanRecord(t, "text", ref, context, h)

\* parse_span(child, ref, context): context is mutated in place
parse_span(child, ref, context, h) ==
  IF "class" \notin DOMAIN child.attrib THEN Returned(h, <<>>)
  ELSE LET cls == child.attrib["class"]
       IN IF cls = c_doc_ti THEN span_doc_ti(child, ref, context, h)
          ELSE IF cls = c_sti_art THEN span_sti_art(child, ref, context, h)
          ELSE IF cls = c_ti_art THEN span_ti_art(child, ref, context, h)
          ELSE IF StartsWith(cls, c_ti_grseq)
               THEN span_title_then_set(child, ref, context, h,
                                        "group-title", "group")
          ELSE IF StartsWith(cls, c_ti_section)
               THEN span_title_then_set(child, ref, context, h,
                                        "section-title", "section")
          ELSE IF cls = c_normal THEN span_normal(child, ref, context, h)
          ELSE parse_modifiers(child, ref, context, h)

\* ------------------------------------------------------------ markup drawn
\* tag names as ElementTree gives them; a namespaced tag reads {uri}name
t_a == <<"a">>
t_p == <<"p">>
t_span == <<"s", "p", "a", "n">>
t_table == <<"t", "a", "b", "l", "e">>
t_div == <<"d", "i", "v">>
t_body == <<"b", "o", "d", "y">>
t_head == <<"h", "e", "a", "d">>
t_hr == <<"h", "r">>
t_ul == <<"u", "l">>
t_ns_p == <<"{", "x", "}", "p">>
t_ns_div == <<"{", "x", "}", "d", "i", "v">>

\* an element: tag, attributes, .text and child elements
Node(tag, attrib, content) ==
  [tag |-> tag, attrib |-> attrib, text |-> content.text, kids |-> content.kids]

NoAttrib == [x \in {} |-> <<>>]
Class(c) == [x \in {"class"} |-> c]

\* contents of a leaf element
x_G == <<" ", "G">>
x_H == <<"H">>
x_num == <<"1", ".", " ", "x">>
x_art == <<"A", "r", "t", "i", "c", "l", "e", " ", "5">>
Leaf(text) == Elem(Str(text), <<>>)
Empty == Elem(None, <<>>)
Bare(content) == Node(t_span, NoAttrib, content)
\* <p><span>...</span></p>
Wrap(content) == Elem(None, <<Bare(content)>>)
\* <p><b/><b/></p>: two children and no direct text
Two == Elem(None, <<Bare(Empty), Bare(Empty)>>)

\* A table as parse_article reads it: the td elements found by the two
\* findall calls (namespaced first), each with its child elements.  The
\* children of the value cell are drawn when the walk iterates over them.
Table(ns_cells, cells) ==
  [tag |-> t_table, attrib |-> NoAttrib, text |-> None, kids |-> <<>>,
   ns_cells |-> ns_cells, cells |-> cells]
Cell(kids) == Elem(None, kids)

\* ------------------------------------------------------------ state
VARIABLES
  pc,       \* "start", "walk", "assemble", "done", "raised"
  heap,     \* object id -> dict (the context dicts alive)
  stack,    \* the parse_article calls in progress, innermost last
  returned, \* the list parse_article(tree) returned to parse_html
  df,       \* the DataFrame parse_html returns: columns and rows
  nodes,    \* number of elements visited so far
  frames,   \* history, one entry per call in progress: where it is in the tree
  hist      \* history: who set each context value, and every record emitted

vars == <<pc, heap, stack, returned, df, nodes, frames, hist>>

Top == stack[Len(stack)]
TopFrame == frames[Len(frames)]

\* pd.DataFrame(): no columns, no rows
EmptyFrame == [columns |-> {}, rows |-> <<>>]

NoLast == [act |-> "none", tag |-> <<>>, entry |-> EmptyDict, final |-> EmptyDict]

Init ==
  /\ pc = "start"
  /\ heap = <<>>
  /\ stack = <<>>
  /\ returned = <<>>
  /\ df = EmptyFrame
  /\ nodes = 0
  /\ frames = <<>>
  /\ hist = [orig |-> <<>>, emits |-> <<>>, last |-> NoLast]

\* ------------------------------------------------------------ history
\* For every dict of the heap h2 reached from h: which call's child list held
\* the node that gave each key its value.  A value a step leaves as it was (or
\* copies from base) keeps its origin; a value the step writes gets `here`.
OrigNext(h, o, h2, base, here) ==
  [i \in 1..Len(h2) |->
     LET src == IF i <= Len(h) THEN i ELSE base
     IN [k \in DOMAIN h2[i] |->
           IF k \in DOMAIN h[src] /\ h[src][k] = h2[i][k]
           THEN o[src][k] ELSE here]]

\* the records a visit emitted, as history entries
Emitted(out, h2, pre, post, fr) ==
  [i \in 1..Len(out) |->
     [ctx |-> out[i].context, at |-> h2[out[i].context], pre |-> pre,
      post |-> post, work |-> Top.new_context, chain |-> fr.chain,
      keys |-> fr.keys,
      type |-> out[i].type, text |-> out[i].text, ref |-> out[i].ref]]

\* ------------------------------------------------------------ parse_article
\* new_context = context without the copy: the callee works on the caller's dict
Call_shared(ref, context, h) ==
  [heap |-> h,
   frame |-> [ref |-> ref, context |-> context, new_context |-> context,
              output |-> <<>>]]

\* A call of parse_article(tree, ref, context): new_context = context.copy()
Call(ref, context, h) ==
  LET c == dict_copy(h, context)
  IN [heap |-> c.heap,
      frame |-> [ref |-> ref, context |-> context, new_context |-> c.id,
                 output |-> <<>>]]

\* the context each recursive call is given
div_context(fr) == fr.new_context
body_context(fr) == fr.context
table_context(fr) == fr.new_context

\* results of the two findall calls, and the shape test on them
table_results(child) == child.ns_cells \o child.cells
table_matches(results) ==
  /\ Len(results) = 2
  /\ Len(results[1].kids) = 1
  /\ get_tag_name(results[1].kids[1].tag) = t_p

\* key = None; for subchild in results[0]: key = _get_text(subchild)
table_key(results) ==
  IF results[1].kids = <<>> THEN None
  ELSE _get_text(results[1].kids[Len(results[1].kids)])

\* [key] + ref: the label put in front
table_ref_prepend(ref, key) == <<key>> \o ref

\* ref + [key]
table_ref(ref, key) == ref \o <<key>>

Walking(maxn) == pc = "walk" /\ nodes < maxn

Visited(act) == [act |-> act, tag |-> <<>>, entry |-> EmptyDict, final |-> EmptyDict]

\* the step's effect on the caller's lists and on the history, for a visit
\* that leaves heap h2 and appends the records out
Extend(h2, out) ==
  /\ heap' = h2
  /\ stack' = [stack EXCEPT ![Len(stack)].output = @ \o out]
  /\ hist' = [orig |-> OrigNext(heap, hist.orig, h2, Top.new_context,
                                TopFrame.chain),
              emits |-> hist.emits \o
                        Emitted(out, h2, heap[Top.new_context],
                                h2[Top.new_context], TopFrame),
              last |-> Visited("visit")]
  /\ nodes' = nodes + 1
  /\ UNCHANGED <<pc, returned, df, frames>>

\* the step's effect when the loop recurses: a new call in progress
Recurse(tag, ref, context, keys) ==
  LET c == Call(ref, context, heap)
  IN /\ heap' = c.heap
     /\ stack' = Append(stack, c.frame)
     /\ frames' = Append(frames,
                    [chain |-> Append(TopFrame.chain,
                                      [id |-> nodes + 1, tag |-> tag]),
                     keys |-> keys, entry |-> heap[context], tag |-> tag])
     /\ hist' = [hist EXCEPT
                   !.orig = OrigNext(heap, hist.orig, c.heap, context,
                                     TopFrame.chain),
                   !.last = Visited("call")]
     /\ nodes' = nodes + 1
     /\ UNCHANGED <<pc, returned, df>>

\* the element is passed over: no record, no recursion
Pass ==
  /\ nodes' = nodes + 1
  /\ hist' = [hist EXCEPT !.last = Visited("pass")]
  /\ UNCHANGED <<pc, heap, stack, returned, df, frames>>

\* ETree.fromstring(html) raises ParseError: parse_html returns pd.DataFrame()
ParseFail ==
  /\ pc = "start"
  /\ pc' = "done"
  /\ df' = EmptyFrame
  /\ UNCHANGED <<heap, stack, returned, nodes, frames, hist>>

\* ETree.fromstring(html) succeeds; parse_article(tree) starts with ref = []
\* and context = {}
ParseOk ==
  /\ pc = "start"
  /\ LET c == Call(<<>>, 1, <<EmptyDict>>)
     IN /\ heap' = c.heap
        /\ stack' = <<c.frame>>
        /\ hist' = [hist EXCEPT !.orig = [i \in 1..Len(c.heap) |-> <<>>]]
  /\ frames' = <<[chain |-> <<>>, keys |-> <<>>, entry |-> EmptyDict,
                  tag |-> "root"]>>
  /\ pc' = "walk"
  /\ UNCHANGED <<returned, df, nodes>>

\* child is an <a>: one link record
VisitA(child, maxn) ==
  /\ Walking(maxn)
  /\ get_tag_name(child.tag) = t_a
  /\ LET c == dict_copy(heap, Top.new_context)
     IN Extend(c.heap, <<[text |-> _get_text(child), type |-> "link",
                          ref |-> Top.ref, context |-> c.id]>>)

\* child is a <p> or a <span>: parse_span, whose exception nobody catches
VisitSpan(child, maxn) ==
  /\ Walking(maxn)
  /\ get_tag_name(child.tag) \in {t_p, t_span}
  /\ LET r == parse_span(child, Top.ref, Top.new_context, heap)
     IN IF r.raised
        THEN /\ pc' = "raised"
             /\ heap' = r.heap
             /\ stack' = <<>>
             /\ frames' = <<>>
             /\ nodes' = nodes + 1
             /\ hist' = [hist EXCEPT
                           !.orig = OrigNext(heap, hist.orig, r.heap,
                                             Top.new_context, TopFrame.chain),
                           !.last = Visited("raise")]
             /\ UNCHANGED <<returned, df>>
        ELSE Extend(r.heap, r.output)

\* child is a <table> of the enumeration shape: recurse into the value cell
VisitTable(child, maxn) ==
  /\ Walking(maxn)
  /\ get_tag_name(child.tag) = t_table
  /\ table_matches(table_results(child))
  /\ LET key == table_key(table_results(child))
     IN Recurse("td", table_ref(Top.ref, key), table_context(Top),
                Append(TopFrame.keys, key))

\* child is a <table> of any other shape
SkipTable(child, maxn) ==
  /\ Walking(maxn)
  /\ get_tag_name(child.tag) = t_table
  /\ ~table_matches(table_results(child))
  /\ Pass

\* child is a <div>
VisitDiv(child, maxn) ==
  /\ Walking(maxn)
  /\ get_tag_name(child.tag) = t_div
  /\ Recurse("div", Top.ref, div_context(Top), TopFrame.keys)

\* child is a <body>
VisitBody(child, maxn) ==
  /\ Walking(maxn)
  /\ get_tag_name(child.tag) = t_body
  /\ Recurse("body", Top.ref, body_context(Top), TopFrame.keys)

\* child is a <head> or an <hr>
VisitHeadHr(child, maxn) ==
  /\ Walking(maxn)
  /\ get_tag_name(child.tag) \in {t_head, t_hr}
  /\ Pass

\* child has a tag no branch names
VisitOther(child, maxn) ==
  /\ Walking(maxn)
  /\ get_tag_name(child.tag) \notin
       {t_a, t_p, t_span, t_table, t_div, t_head, t_hr, t_body}
  /\ Pass

\* the for loop ends: return output; the caller extends its own list with it
Return ==
  /\ pc = "walk"
  /\ hist' = [hist EXCEPT
                !.last = [act |-> "return", tag |-> TopFrame.tag,
                          entry |-> TopFrame.entry,
                          final |-> heap[Top.new_context]]]
  /\ frames' = SubSeq(frames, 1, Len(frames) - 1)
  /\ IF Len(stack) = 1
     THEN /\ returned' = Top.output
          /\ stack' = <<>>
          /\ pc' = "assemble"
     ELSE /\ stack' = [SubSeq(stack, 1, Len(stack) - 1) EXCEPT
                         ![Len(stack) - 1].output = @ \o Top.output]
          /\ UNCHANGED <<returned, pc>>
  /\ UNCHANGED <<heap, df, nodes>>

\* ------------------------------------------------------------ parse_html
\* a missing cell of a DataFrame
NaN == [none |-> TRUE, s |-> <<"NaN">>]

\* the loop body dropped: the record is left as emitted
flatten_skipped(item, h) == item

\* for key, value in item["context"].items(): item[key] = value
flatten(item, h) ==
  LET ctx == h[item.context]
  IN [k \in (DOMAIN item) \cup (DOMAIN ctx) |->
        IF k \in DOMAIN ctx THEN ctx[k] ELSE item[k]]

\* pd.DataFrame.from_records(records): one column per key of any record
from_records(records) ==
  LET columns == UNION {DOMAIN records[i] : i \in 1..Len(records)}
  IN [columns |-> columns,
      rows |-> [i \in 1..Len(records) |->
                  [c \in columns |->
                     IF c \in DOMAIN records[i] THEN records[i][c] ELSE NaN]]]

IsTextRow(row) == row["type"] = "text"

\* the selection dropped: every record is kept
select_all(d) == d

\* df[df.type == "text"] if "type" in df.columns else df
select_text(d) ==
  IF "type" \in d.columns
  THEN [columns |-> d.columns, rows |-> SelectSeq(d.rows, IsTextRow)]
  ELSE d

\* the rest of parse_html once parse_article(tree) has returned
Assemble ==
  /\ pc = "assemble"
  /\ df' = select_text(from_records(
             [i \in 1..Len(returned) |-> flatten(returned[i], heap)]))
  /\ pc' = "done"
  /\ hist' = [hist EXCEPT !.last = Visited("assemble")]
  /\ UNCHANGED <<heap, stack, returned, nodes, frames>>

\* ------------------------------------------------------------ inputs
Classes ==
  {c_doc_ti, c_sti_art, c_ti_art, c_ti_grseq \o <<"1">>,
   c_ti_section \o <<"1">>, c_normal, c_italic, c_signatory, c_note,
   c_separator}
Attribs == {NoAttrib} \cup {Class(c) : c \in Classes}
Contents == {Empty, Leaf(x_G), Leaf(x_num), Wrap(Leaf(x_art)), Two}

x_1 == <<"(", "1", ")">>
x_a == <<"(", "a", ")">>
KeyTable(tag, content) ==
  Table(<<>>, <<Cell(<<Node(tag, NoAttrib, content)>>), Cell(<<>>)>>)

Spans ==
  {Node(t_p, a, c) : a \in Attribs, c \in Contents}
    \cup {Node(t_span, Class(c_normal), Leaf(x_H)),
          Node(t_ns_p, Class(c_normal), Leaf(x_H))}
Links == {Node(t_a, NoAttrib, c) : c \in {Empty, Leaf(x_G)}}
Tables ==
  {KeyTable(t_p, c) : c \in {Leaf(x_1), Leaf(x_a), Empty}}
    \cup {Table(<<Cell(<<Node(t_ns_p, NoAttrib, Leaf(x_1))>>), Cell(<<>>)>>, <<>>),
          KeyTable(t_span, Leaf(x_1)),
          Table(<<>>, <<Cell(<<Node(t_p, NoAttrib, Leaf(x_1))>>)>>),
          Table(<<>>, <<Cell(<<Node(t_p, NoAttrib, Leaf(x_1))>>), Cell(<<>>),
                        Cell(<<>>)>>),
          Table(<<>>, <<Cell(<<Node(t_p, NoAttrib, Leaf(x_1)),
                               Node(t_p, NoAttrib, Leaf(x_a))>>), Cell(<<>>)>>),
          Table(<<>>, <<Cell(<<>>), Cell(<<>>)>>)}
Containers ==
  {Node(t, NoAttrib, Empty) : t \in {t_div, t_ns_div, t_body}}
Others == {Node(t, NoAttrib, Leaf(x_G)) : t \in {t_head, t_hr, t_ul}}

\* every kind of child, for walks of a few nodes
Children == Spans \cup Links \cup Tables \cup Containers \cup Others

\* a few children of each kind, for deeper walks
DeepChildren ==
  {Node(t_p, Class(c_ti_art), Wrap(Leaf(x_art))),
   Node(t_p, Class(c_ti_grseq \o <<"1">>), Leaf(x_G)),
   Node(t_p, Class(c_normal), Leaf(x_H)),
   Node(t_a, NoAttrib, Leaf(x_G)),
   KeyTable(t_p, Leaf(x_1)), KeyTable(t_p, Leaf(x_a)),
   KeyTable(t_span, Leaf(x_1)),
   Node(t_div, NoAttrib, Empty), Node(t_body, NoAttrib, Empty),
   Node(t_hr, NoAttrib, Empty), Node(t_ul, NoAttrib, Empty)}

\* ------------------------------------------------------------ specification
Step(S, maxn) ==
  \/ ParseFail
  \/ ParseOk
  \/ \E child \in S :
       \/ VisitA(child, maxn)
       \/ VisitSpan(child, maxn)
       \/ VisitTable(child, maxn)
       \/ SkipTable(child, maxn)
       \/ VisitDiv(child, maxn)
       \/ VisitBody(child, maxn)
       \/ VisitHeadHr(child, maxn)
       \/ VisitOther(child, maxn)
  \/ Return
  \/ Assemble

Next == Step(Children, MaxNodes)
Spec == Init /\ [][Next]_vars

NextDeep == Step(DeepChildren, MaxNodesDeep)
SpecDeep == Init /\ [][NextDeep]_vars

\* ------------------------------------------------------------ properties
Emits == hist.emits
EmitIds == 1..Len(hist.emits)
Rows == 1..Len(df.rows)

\* C1: parse_html never aborts with an error, whatever the markup.
C1_NeverAborts == pc # "raised"

\* C2: every record of the result of parse_html has type text, the text
\* records of the walk are all there, and they are in the order of the walk.
C2_OnlyTextInOrder ==
  pc = "done" =>
    /\ \A i \in Rows : df.rows[i]["type"] = "text"
    /\ {df.rows[i]["context"] : i \in Rows}
         = {returned[i].context :
              i \in {j \in 1..Len(returned) : returned[j].type = "text"}}
    /\ \A i, j \in Rows :
         i < j => \E a, b \in 1..Len(returned) :
                    /\ a < b
                    /\ returned[a].context = df.rows[i]["context"]
                    /\ returned[b].context = df.rows[j]["context"]

\* a run in which a title was dropped and a text record kept
C2_Witness ==
  /\ pc = "done"
  /\ Len(df.rows) >= 1
  /\ \E i \in 1..Len(returned) : returned[i].type # "text"

\* C3: every key of a returned record's context snapshot is a top-level field
\* of the record with the same value, the nested context is the snapshot as
\* emitted, and text, type, ref and modifier are those the walk emitted.
C3_ContextFlattened ==
  pc = "done" =>
    \A i \in Rows :
      LET row == df.rows[i]
          ctx == heap[row["context"]]
      IN /\ \A k \in DOMAIN ctx : k \in df.columns /\ row[k] = ctx[k]
         /\ \E n \in 1..Len(returned) :
              LET r == returned[n]
              IN /\ r.context = row["context"]
                 /\ ctx = Emits[n].at
                 /\ row["text"] = r.text
                 /\ row["type"] = r.type
                 /\ row["ref"] = r.ref
                 /\ "modifier" \in DOMAIN r => row["modifier"] = r.modifier
                 /\ "modifier" \notin DOMAIN r =>
                      ("modifier" \in df.columns => row["modifier"] = NaN)

\* a returned record whose snapshot has a key
C3_Witness ==
  /\ pc = "done"
  /\ \E i \in Rows : DOMAIN heap[df.rows[i]["context"]] # {}

\* the call whose child list held the node that set key k of dict id
Origin(id, k) == hist.orig[id][k]

\* no record emitted outside an element with one of these tags carries a
\* context value set inside that element
NoLeakFrom(tags) ==
  \A n \in EmitIds :
    LET e == Emits[n]
    IN \A k \in DOMAIN hist.orig[e.ctx] :
         LET oc == Origin(e.ctx, k)
         IN \A j \in 1..Len(oc) :
              oc[j].tag \in tags => j <= Len(e.chain) /\ e.chain[j] = oc[j]

\* oc lies inside one div and chain inside another div with the same parent
SiblingDivs(oc, chain) ==
  \E j \in 1..Len(oc) :
    /\ j <= Len(chain)
    /\ SubSeq(oc, 1, j - 1) = SubSeq(chain, 1, j - 1)
    /\ oc[j].tag = "div"
    /\ chain[j].tag = "div"
    /\ oc[j].id # chain[j].id

AfterReturnFrom(tag) ==
  pc = "walk" /\ hist.last.act = "return" /\ hist.last.tag = tag

\* C4 as stated: when a div child returns, the caller's working context holds
\* every context value the div's children left in theirs.
C4_DivPropagates ==
  AfterReturnFrom("div") =>
    \A k \in DOMAIN hist.last.final :
      /\ k \in DOMAIN heap[Top.new_context]
      /\ heap[Top.new_context][k] = hist.last.final[k]

\* C4 amended: the div's children work on a copy; when the div returns the
\* caller's working context is what it was when the div was entered, and no
\* record emitted outside a div carries a value set inside it.
C4_DivKeepsCallerContext ==
  /\ AfterReturnFrom("div") => heap[Top.new_context] = hist.last.entry
  /\ NoLeakFrom({"div"})

\* a div whose children changed the context has returned, and the caller has
\* emitted a record after it
C4_Witness ==
  /\ pc = "walk"
  /\ hist.last.act = "visit"
  /\ \E i \in 1..Len(heap) : \E k \in DOMAIN hist.orig[i] :
       /\ Len(Origin(i, k)) = Len(TopFrame.chain) + 1
       /\ SubSeq(Origin(i, k), 1, Len(TopFrame.chain)) = TopFrame.chain
       /\ Origin(i, k)[Len(Origin(i, k))].tag = "div"
       /\ \E n \in EmitIds : Emits[n].chain = TopFrame.chain /\ Emits[n].ctx > i

\* C5: a context value set inside one div never appears in the snapshot of a
\* record emitted inside a sibling div.
C5_NoSiblingLeak ==
  \A n \in EmitIds :
    \A k \in DOMAIN hist.orig[Emits[n].ctx] :
      ~SiblingDivs(Origin(Emits[n].ctx, k), Emits[n].chain)

\* a record was emitted inside a div after an earlier sibling div had set a
\* context value
C5_Witness ==
  \E n \in EmitIds : \E i \in 1..Len(heap) : \E k \in DOMAIN hist.orig[i] :
    i < Emits[n].ctx /\ SiblingDivs(Origin(i, k), Emits[n].chain)

\* C6: a context value set inside a body or inside the value cell of an
\* enumeration table never appears in the snapshot of a record emitted outside
\* that body or cell.
C6_BodyAndCellAreBoundaries == NoLeakFrom({"body", "td"})

\* a record was emitted after a body or a value cell returned in which a
\* context value had been set
C6_Witness ==
  \E n \in EmitIds : \E i \in 1..Len(heap) : \E k \in DOMAIN hist.orig[i] :
    LET oc == Origin(i, k)
        e == Emits[n]
    IN /\ i < e.ctx
       /\ Len(oc) = Len(e.chain) + 1
       /\ SubSeq(oc, 1, Len(e.chain)) = e.chain
       /\ oc[Len(oc)].tag \in {"body", "td"}

\* C7: the context snapshot of an emitted record never changes afterwards.
C7_SnapshotsFrozen ==
  \A n \in EmitIds : heap[Emits[n].ctx] = Emits[n].at

\* the working context a record was taken from was changed after the record
\* was emitted
C7_Witness ==
  \E n \in EmitIds : heap[Emits[n].work] # Emits[n].post

\* C8: the ref of every emitted record has one label per enclosing matched
\* table, outermost first, and is empty outside any table.
C8_RefIsTablePath ==
  \A n \in EmitIds :
    LET e == Emits[n]
    IN /\ Len(e.ref) = Cardinality({j \in 1..Len(e.chain) : e.chain[j].tag = "td"})
       /\ e.ref = e.keys

\* a record three tables deep, the outer two labels different
C8_Witness ==
  \E n \in EmitIds :
    Len(Emits[n].ref) = 3 /\ Emits[n].ref[1] # Emits[n].ref[2]

\* C9: every element of every emitted ref is a string, never None.
C9_RefLabelsAreStrings ==
  \A n \in EmitIds :
    \A i \in 1..Len(Emits[n].ref) : ~IsNone(Emits[n].ref[i])

\* record m is the next one after record n that the same call emits
NextInWalk(n, m) ==
  /\ n < m
  /\ Emits[m].chain = Emits[n].chain
  /\ \A x \in (n + 1)..(m - 1) : Emits[x].chain # Emits[n].chain

TitleKey(type) ==
  CASE type = "group-title" -> "group"
    [] type = "section-title" -> "section"
    [] type = "doc-title" -> "document"
    [] type = "art-title" -> "article"
    [] type = "art-subtitle" -> "article_subtitle"

\* C10: a group-title or section-title record carries the context as it was
\* before its own update and the next record of the same walk carries the
\* value it set; a doc-title, art-title or art-subtitle record carries the
\* context after its own update.
C10_SnapshotTiming ==
  \A n \in EmitIds :
    LET e == Emits[n]
    IN /\ e.type \in {"group-title", "section-title"} =>
            /\ e.at = e.pre
            /\ TitleKey(e.type) \in DOMAIN e.post
            /\ e.post[TitleKey(e.type)] = e.text
            /\ \A m \in EmitIds :
                 NextInWalk(n, m) =>
                   /\ TitleKey(e.type) \in DOMAIN Emits[m].at
                   /\ Emits[m].at[TitleKey(e.type)] = e.text
       /\ e.type \in {"doc-title", "art-title", "art-subtitle"} =>
            /\ e.at = e.post
            /\ TitleKey(e.type) \in DOMAIN e.at
            /\ e.type = "art-subtitle" => e.at["article_subtitle"] = e.text

\* a first group title, its snapshot without a group, then another record of
\* the same walk
C10_Witness ==
  \E n, m \in EmitIds :
    /\ Emits[n].type = "group-title"
    /\ "group" \notin DOMAIN Emits[n].at
    /\ NextInWalk(n, m)


\* ------------------------------------------------------------ one call of parse_span
\* parse_span called directly on one element, with the dict its caller holds.
\* The element text is put together from at most MaxPieces pieces.
MaxPieces == 4

SpanPieces == {w_Article, <<" ">>, <<"5">>, <<".">>, <<"(">>, <<")">>, <<"x">>}

RECURSIVE TextsUpTo(_, _)
TextsUpTo(P, n) ==
  IF n = 0 THEN {<<>>}
  ELSE LET T == TextsUpTo(P, n - 1) IN T \cup {t \o p : t \in T, p \in P}

x_9 == <<"9">>
SpanContexts == {EmptyDict, [k \in {"article", "paragraph"} |-> Str(x_9)]}
SpanChildren ==
  {Node(t_p, Class(c), Leaf(t)) :
     c \in {c_ti_art, c_normal}, t \in TextsUpTo(SpanPieces, MaxPieces)}

\* the caller's state just before the call: its dict is object 1 of the heap;
\* stack holds the arguments, and what the dict held when the call was made
InitSpan ==
  /\ pc = "call_span"
  /\ \E c \in SpanContexts : \E child \in SpanChildren :
       /\ heap = <<c>>
       /\ stack = <<[child |-> child, ref |-> <<>>, context |-> 1, before |-> c]>>
  /\ returned = <<>>
  /\ df = EmptyFrame
  /\ nodes = 0
  /\ frames = <<>>
  /\ hist = [orig |-> <<>>, emits |-> <<>>, last |-> NoLast]

\* output = parse_span(child, ref, context)
CallSpan ==
  /\ pc = "call_span"
  /\ LET r == parse_span(Top.child, Top.ref, Top.context, heap)
     IN /\ heap' = r.heap
        /\ returned' = r.output
        /\ pc' = IF r.raised THEN "raised" ELSE "span_returned"
  /\ UNCHANGED <<stack, df, nodes, frames, hist>>

NextSpan == CallSpan
SpecSpan == InitSpan /\ [][NextSpan]_vars

\* the call of parse_span has returned for an element of class cls
SpanReturned(cls) == pc = "span_returned" /\ Top.child.attrib["class"] = cls
\* the text parse_span extracted from the element
SpanText == _get_text(Top.child).s
\* the dict the caller passed, as it is now
SpanContext == heap[Top.context]

\* C11: for a ti-art element with extracted text t, context["article"] is t
\* with only a leading word "Article" removed and the rest trimmed; an
\* "Article" further on in t is kept.
C11_LeadingArticleOnly ==
  SpanReturned(c_ti_art) =>
    SpanContext["article"] =
      Str(Strip(IF StartsWith(SpanText, w_Article)
                THEN SubSeq(SpanText, Len(w_Article) + 1, Len(SpanText))
                ELSE SpanText))


\* the extracted text starts with one or more digits and a period
StartsWithNumeral(t) ==
  \E n \in 1..(Len(t) - 1) : t[n + 1] = "." /\ \A i \in 1..n : IsDigit(t[i])
\* how many digits
NumeralLen(t) ==
  CHOOSE n \in 1..(Len(t) - 1) : t[n + 1] = "." /\ \A i \in 1..n : IsDigit(t[i])

\* C12: a normal paragraph whose text starts with digits and a period gives
\* one text record whose snapshot has paragraph = exactly those digits and
\* whose text is what follows that first period, trimmed; any other text
\* (one starting with "(5)" too) is emitted as it is and the context is left
\* as the caller had it.
C12_NumeralOpensParagraph ==
  SpanReturned(c_normal) =>
    /\ Len(returned) = 1
    /\ returned[1].type = "text"
    /\ LET t == SpanText
           snap == heap[returned[1].context]
       IN IF StartsWithNumeral(t)
          THEN LET n == NumeralLen(t)
               IN /\ snap = DictSet(Top.before, "paragraph", Str(SubSeq(t, 1, n)))
                  /\ SpanContext = snap
                  /\ returned[1].text = Str(Strip(SubSeq(t, n + 2, Len(t))))
          ELSE /\ returned[1].text = Str(t)
               /\ SpanContext = Top.before
               /\ snap = Top.before

\* a two-digit numeral replaced the paragraph the caller had
C12_Witness ==
  /\ SpanReturned(c_normal)
  /\ StartsWithNumeral(SpanText) /\ NumeralLen(SpanText) = 2
  /\ "paragraph" \in DOMAIN Top.before
  /\ SpanContext["paragraph"] # Top.before["paragraph"]
  /\ returned[1].text # Str(<<>>)

\* a text starting with a parenthesised number went through unchanged
C12_WitnessOther ==
  /\ SpanReturned(c_normal)
  /\ StartsWith(SpanText, <<"(", "5", ")">>)
  /\ "paragraph" \in DOMAIN Top.before


\* ------------------------------------------------------------ one paragraph
\* parse_html on markup whose only classified node is one p of class normal
\* holding plain text; around it divs, a body, a head, an hr, an unknown tag
\* and p elements with no class or an unknown one.
MaxNodesSingle == 3

SingleParagraphs ==
  {Node(t_p, Class(c_normal), Leaf(t)) : t \in {x_G, x_H, x_num, x_1}}
SingleOthers ==
  {Node(t_p, NoAttrib, Leaf(x_G)), Node(t_p, Class(c_separator), Leaf(x_G))}
    \cup {Node(t, NoAttrib, Empty) : t \in {t_div, t_body, t_head, t_hr, t_ul}}

NextSingle ==
  \/ ParseFail
  \/ ParseOk
  \/ \E child \in SingleParagraphs :
       hist.emits = <<>> /\ VisitSpan(child, MaxNodesSingle)
  \/ \E child \in SingleOthers :
       \/ VisitSpan(child, MaxNodesSingle)
       \/ VisitDiv(child, MaxNodesSingle)
       \/ VisitBody(child, MaxNodesSingle)
       \/ VisitHeadHr(child, MaxNodesSingle)
       \/ VisitOther(child, MaxNodesSingle)
  \/ Return
  \/ Assemble
SpecSingle == Init /\ [][NextSingle]_vars

\* parse_html has returned and the walk met the paragraph
SingleDone == pc = "done" /\ Len(Emits) = 1
\* the columns every record has
RecordColumns == {"text", "type", "ref", "context"}
\* the DataFrame is one text row with an empty ref, whose context is ctx
OneTextRow(ctx) ==
  /\ Len(df.rows) = 1
  /\ df.rows[1]["type"] = "text"
  /\ df.rows[1]["ref"] = <<>>
  /\ heap[df.rows[1]["context"]] = ctx
  /\ df.columns = RecordColumns \cup DOMAIN ctx
  /\ \A k \in DOMAIN ctx : df.rows[1][k] = ctx[k]

C13_WitnessNumeral ==
  /\ SingleDone
  /\ "paragraph" \in df.columns


\* ------------------------------------------------------------ parse_article_paragraphs
\* re.match(r"^[(]([0-9]+)[)]", line) is not None
MatchParenthesised(line) ==
  /\ line # <<>>
  /\ Head(line) = "("
  /\ LET n == LeadDigits(Tail(line))
     IN n >= 1 /\ Len(line) >= n + 2 /\ line[n + 2] = ")"

\* a dict in insertion order: a sequence of (key, lines) entries
HasKey(paragraphs, paragraph) ==
  \E i \in 1..Len(paragraphs) : paragraphs[i].key = paragraph

\* paragraphs[paragraph] = [] on every line: the lines so far are dropped
paragraphs_reset(paragraphs, paragraph, line) ==
  IF HasKey(paragraphs, paragraph)
  THEN [i \in 1..Len(paragraphs) |->
          IF paragraphs[i].key = paragraph
          THEN [paragraphs[i] EXCEPT !.lines = <<line>>] ELSE paragraphs[i]]
  ELSE Append(paragraphs, [key |-> paragraph, lines |-> <<line>>])

\* if paragraph not in paragraphs: paragraphs[paragraph] = []
\* paragraphs[paragraph].append(line)
paragraphs_append(paragraphs, paragraph, line) ==
  IF HasKey(paragraphs, paragraph)
  THEN [i \in 1..Len(paragraphs) |->
          IF paragraphs[i].key = paragraph
          THEN [paragraphs[i] EXCEPT !.lines = Append(@, line)]
          ELSE paragraphs[i]]
  ELSE Append(paragraphs, [key |-> paragraph, lines |-> <<line>>])

\* the two re.match branches of the loop body: the label in force after the
\* line, and what is left of the line
paragraph_line(paragraph, line) ==
  IF MatchNumeral(line)
  THEN [paragraph |-> Str(SubSeq(line, 1, LeadDigits(line) + 1)),
        line |-> Strip(Join(".", Tail(Split(line, "."))))]
  ELSE IF MatchParenthesised(line)
  THEN [paragraph |-> Str(SubSeq(line, 1, LeadDigits(Tail(line)) + 2)),
        line |-> Strip(Join(")", Tail(Split(line, ")"))))]
  ELSE [paragraph |-> paragraph, line |-> line]

\* for line in article.split("\n"): ...
RECURSIVE paragraphs_loop(_, _, _)
paragraphs_loop(lines, paragraph, paragraphs) ==
  IF lines = <<>> THEN paragraphs
  ELSE LET r == paragraph_line(paragraph, Head(lines))
       IN paragraphs_loop(Tail(lines), r.paragraph,
                          paragraphs_append(paragraphs, r.paragraph, r.line))

\* the line-break stand-in: five spaces
five_spaces == <<" ", " ", " ", " ", " ">>
x_nl == <<"\n">>

\* parse_article_paragraphs(article): label -> text, in insertion order
parse_article_paragraphs(article) ==
  LET lines == Split(Replace(article, five_spaces, x_nl), "\n")
      paragraphs == paragraphs_loop(lines, None, <<>>)
  IN [i \in 1..Len(paragraphs) |->
        [key |-> paragraphs[i].key,
         value |-> Strip(Join("\n", paragraphs[i].lines))]]

\* the article text is put together from at most MaxArticlePieces pieces
MaxArticlePieces == 5
ArticlePieces ==
  {<<"1", ".">>, <<"(", "2", ")">>, <<"a">>, <<"1">>, <<" ">>, five_spaces, x_nl}

InitParagraphs ==
  /\ pc = "call_paragraphs"
  /\ \E article \in TextsUpTo(ArticlePieces, MaxArticlePieces) :
       stack = <<[article |-> article]>>
  /\ heap = <<>>
  /\ returned = <<>>
  /\ df = EmptyFrame
  /\ nodes = 0
  /\ frames = <<>>
  /\ hist = [orig |-> <<>>, emits |-> <<>>, last |-> NoLast]

\* paragraphs = parse_article_paragraphs(article)
CallParagraphs ==
  /\ pc = "call_paragraphs"
  /\ returned' = parse_article_paragraphs(Top.article)
  /\ pc' = "paragraphs_returned"
  /\ UNCHANGED <<heap, stack, df, nodes, frames, hist>>

NextParagraphs == CallParagraphs
SpecParagraphs == InitParagraphs /\ [][NextParagraphs]_vars


\* the line starts with a parenthesised number
StartsWithParenthesised(l) ==
  \E n \in 1..(Len(l) - 2) :
    l[1] = "(" /\ l[n + 2] = ")" /\ \A i \in 2..(n + 1) : IsDigit(l[i])
\* the length of the marker a line starts with (0: the line has no marker)
MarkerLen(l) ==
  IF StartsWithNumeral(l) THEN NumeralLen(l) + 1
  ELSE IF StartsWithParenthesised(l)
  THEN 2 + CHOOSE n \in 1..(Len(l) - 2) :
             l[n + 2] = ")" /\ \A i \in 2..(n + 1) : IsDigit(l[i])
  ELSE 0

\* the lines of the article once the five-space runs are line breaks
ArticleLines(article) == Split(Replace(article, five_spaces, x_nl), "\n")

\* the label line i belongs to: the marker of the nearest marker line at or
\* before it, the null label if there is none
LabelAt(L, i) ==
  LET marked == {j \in 1..i : MarkerLen(L[j]) > 0}
  IN IF marked = {} THEN None
     ELSE LET j == CHOOSE m \in marked : \A o \in marked : o <= m
          IN Str(SubSeq(L[j], 1, MarkerLen(L[j])))

\* what line i contributes: the line without its marker (trimmed, if trim)
ContributionAt(L, i, trim) ==
  LET rest == SubSeq(L[i], MarkerLen(L[i]) + 1, Len(L[i]))
  IN IF trim /\ MarkerLen(L[i]) > 0 THEN Strip(rest) ELSE rest

\* the increasing sequence of the numbers in S
RECURSIVE Ascending(_)
Ascending(S) ==
  IF S = {} THEN <<>>
  ELSE LET lo == CHOOSE m \in S : \A o \in S : m <= o
       IN <<lo>> \o Ascending(S \ {lo})

\* the mapping the claim describes: one entry per label, in order of first
\* occurrence, holding the label's contributions joined by line breaks and
\* trimmed
ParagraphsOf(article, trim) ==
  LET L == ArticleLines(article)
      firsts == Ascending({i \in 1..Len(L) :
                             \A j \in 1..(i - 1) : LabelAt(L, j) # LabelAt(L, i)})
  IN [n \in 1..Len(firsts) |->
        LET own == Ascending({i \in 1..Len(L) :
                                LabelAt(L, i) = LabelAt(L, firsts[n])})
        IN [key |-> LabelAt(L, firsts[n]),
            value |-> Strip(Join("\n", [m \in 1..Len(own) |->
                                          ContributionAt(L, own[m], trim)]))]]

ParagraphsReturned == pc = "paragraphs_returned"

\* C14 (as stated): with the five-space runs turned into line breaks, a line
\* starting with digits+period or parenthesised digits opens the paragraph
\* labelled by exactly that marker and contributes the rest of the line, the
\* marker removed; any other line belongs to the label opened last, or to the
\* null label; the result maps each label, in order of first occurrence, to
\* its lines joined by line breaks and trimmed.
C14_ParagraphsAsStated ==
  ParagraphsReturned => returned = ParagraphsOf(Top.article, FALSE)

\* C14 (amended): the same, where the rest of a marker line is trimmed before
\* it is added to its paragraph.
C14_Paragraphs ==
  ParagraphsReturned => returned = ParagraphsOf(Top.article, TRUE)

\* a preamble under the null label, then a paragraph opened by a marker
C14_Witness ==
  /\ ParagraphsReturned
  /\ Len(returned) = 2
  /\ IsNone(returned[1].key) /\ returned[1].value # <<>>
  /\ ~IsNone(returned[2].key) /\ returned[2].value # <<>>

\* a paragraph of two lines
C14_WitnessTwoLines ==
  /\ ParagraphsReturned
  /\ ~IsNone(returned[1].key)
  /\ \E i \in 1..Len(returned[1].value) : returned[1].value[i] = "\n"


\* ------------------------------------------------------------ callers' dicts
\* every record emitted so far and still held by some list
AllRecords ==
  {returned[i] : i \in 1..Len(returned)}
    \cup UNION {{stack[j].output[i] : i \in 1..Len(stack[j].output)} :
                  j \in 1..Len(stack)}
\* emission n came from parse_modifiers
FromModifiers(n) ==
  \E r \in AllRecords : r.context = Emits[n].ctx /\ "modifier" \in DOMAIN r

\* every call of parse_article in progress: the dict and the ref it was passed
\* are as they were at the call
ArticleCallsKeepArguments ==
  \A i \in 1..Len(stack) :
    /\ heap[stack[i].context] = frames[i].entry
    /\ stack[i].ref = frames[i].keys

\* C15 (as stated): each of parse_article, parse_span and parse_modifiers
\* leaves the context mapping and the ref its caller supplied holding exactly
\* what they held at the call.
C15_AllPure ==
  /\ ArticleCallsKeepArguments
  /\ \A n \in EmitIds :
       Emits[n].type # "link" => Emits[n].post = Emits[n].pre

\* C15 (amended): parse_article and parse_modifiers leave the context mapping
\* and the ref their caller supplied as they were at the call; parse_span
\* leaves the ref alone and writes into the mapping it is passed, which on
\* return differs from its value at the call in at most the one key of the
\* element's class.
C15_CallersKeepContext ==
  /\ ArticleCallsKeepArguments
  /\ \A n \in EmitIds :
       LET e == Emits[n]
           key == IF e.type = "text" THEN "paragraph" ELSE TitleKey(e.type)
       IN /\ e.ref = e.keys
          /\ e.type # "link" =>
               /\ FromModifiers(n) => e.post = e.pre
               /\ DOMAIN e.pre \subseteq DOMAIN e.post
               /\ DOMAIN e.post \subseteq DOMAIN e.pre \cup {key}
               /\ \A k \in DOMAIN e.pre \ {key} : e.post[k] = e.pre[k]

\* a call below the root whose parse_span has written to the call's own copy
\* while the dict the caller passed is as it was
C15_Witness ==
  /\ Len(stack) >= 2
  /\ heap[Top.new_context] # heap[Top.context]
  /\ \E n \in EmitIds : Emits[n].post # Emits[n].pre

\* parse_modifiers has returned a record for a caller with a non-empty dict
C15_WitnessModifier ==
  \E n \in EmitIds : FromModifiers(n) /\ Emits[n].pre # EmptyDict


\* ------------------------------------------------------------ unrecognised structure
\* the classes parse_span and parse_modifiers know
KnownClass(c) ==
  \/ c \in {c_doc_ti, c_sti_art, c_ti_art, c_normal, c_italic, c_signatory,
            c_note}
  \/ StartsWith(c, c_ti_grseq)
  \/ StartsWith(c, c_ti_section)

\* a table with exactly two cells whose first cell has a single p child
EnumerationTable(child) ==
  LET cells == child.ns_cells \o child.cells
  IN /\ Len(cells) = 2
     /\ Len(cells[1].kids) = 1
     /\ get_tag_name(cells[1].kids[1].tag) = t_p

\* the structure no rule recognises
Unrecognised(child) ==
  LET tag == get_tag_name(child.tag)
  IN \/ /\ tag \in {t_p, t_span}
        /\ "class" \in DOMAIN child.attrib => ~KnownClass(child.attrib["class"])
     \/ tag = t_table /\ ~EnumerationTable(child)
     \/ tag \in {t_head, t_hr}
     \/ tag \notin {t_a, t_p, t_span, t_table, t_div, t_body}

\* the loop of parse_article takes child
Visit(child) ==
  \/ VisitA(child, MaxNodes)
  \/ VisitSpan(child, MaxNodes)
  \/ VisitTable(child, MaxNodes)
  \/ SkipTable(child, MaxNodes)
  \/ VisitDiv(child, MaxNodes)
  \/ VisitBody(child, MaxNodes)
  \/ VisitHeadHr(child, MaxNodes)
  \/ VisitOther(child, MaxNodes)

\* no record, no call, every dict as it was: the walk goes on to the next
\* sibling in the state it was in
SkippedWithoutEffect ==
  /\ pc' = pc
  /\ stack' = stack
  /\ frames' = frames
  /\ returned' = returned
  /\ hist'.emits = hist.emits
  /\ \A id \in 1..Len(heap) : heap'[id] = heap[id]

\* C16: a p/span with no class or an unknown class, a table that is not of the
\* two-cell shape, a head, an hr and a child of any other tag contribute no
\* record, are not recursed into and leave the working context of the walk as
\* it was for the following siblings.
C16_UnrecognisedSkipped ==
  [][\A child \in Children :
       Unrecognised(child) /\ Visit(child) => SkippedWithoutEffect]_vars

\* an element has just been passed over in a walk whose working context has a
\* value and has emitted a record
C16_Witness ==
  /\ hist.last.act = "pass"
  /\ pc = "walk"
  /\ heap[Top.new_context] # EmptyDict
  /\ Top.output # <<>>


\* ------------------------------------------------------------ body
\* parse_article has just recursed into a child with this tag
JustEntered(tag) ==
  hist.last.act = "call" /\ Len(stack) >= 2 /\ TopFrame.tag = tag
\* the walk of the child starts from the working context its caller has now,
\* with every update the preceding siblings made
StartsFromCurrentContext ==
  heap[Top.new_context] = heap[stack[Len(stack) - 1].new_context]

\* C17: the children of a body child are walked with the walker's current
\* context, which includes every mutation the body's preceding siblings made
\* in the same walk, exactly as the children of a div child are.
C17_BodyGetsCurrentContext ==
  JustEntered("body") \/ JustEntered("div") => StartsFromCurrentContext

====
